---- MODULE Spec2Model ----
(***************************************************************************)
(* Model of actions/actions.py: the reference tables, the normalisation    *)
(* functions (normalize_text, normalize_city, normalize_train_number),     *)
(* find_next_train and the seven Rasa action handlers.                     *)
(*                                                                         *)
(* A Python string is a sequence of Unicode code points (naturals), so     *)
(* that lower(), upper(), title(), strip(), the regular expressions and    *)
(* difflib's sequence matching are computed character by character.        *)
(* Python's None is the value None below.                                  *)
(***************************************************************************)
EXTENDS Integers, Sequences, FiniteSets, TLC

VARIABLES
    fn,         \* pure-function runs: which function has been applied ("none" before)
    raw,        \* pure-function runs: the argument (a string, a list of strings, or None)
    clock,      \* minute-of-day read by now_warsaw() during the last call (NoClock if not read)
    out,        \* pure-function runs: the value returned (NotReturned before the call)
    tracker,    \* handler runs: the conversational-state snapshot (slots, entities, intent)
    handler,    \* handler runs: the name of the action that ran ("none" before)
    messages,   \* handler runs: the texts collected by the CollectingDispatcher
    events      \* handler runs: the list returned by run (NotReturned before the call)

vars == <<fn, raw, clock, out, tracker, handler, messages, events>>

-----------------------------------------------------------------------------
(* Values *)

\* Python's None.  Strings are tuples of code points (all >= 0), so no string equals it.
None == << -1 >>

\* Marks "the call has not returned yet"; no list or string equals it.
NotReturned == << -2 >>

\* The intent name of a message that carries no intent.
NoIntent == "<none>"

\* Marks "now_warsaw() has not been read".
NoClock == -1

\* None where a list of strings is expected (a list's elements are strings, and
\* << -1 >> is no string).
NoList == << << -1 >> >>

\* Python truthiness of an Optional[str]: None and the empty string are falsy.
Truthy(x) == x # None /\ x # <<>>

\* Python truthiness of an Optional[List[str]]: None and the empty list are falsy.
TruthyList(l) == l # NoList /\ l # <<>>

Min(a, b) == IF a <= b THEN a ELSE b

\* F applied to the value of v, with v evaluated once (a local variable of the code)
With(v, F(_)) == CHOOSE y \in {F(x) : x \in {v}} : TRUE

-----------------------------------------------------------------------------
(* Characters: the part of Unicode the program's data and patterns use *)

\* The Polish capitals of the pattern in normalize_train_number, "ĄĆĘŁŃÓŚŻŹ",
\* and their lower-case forms "ąćęłńóśżź", position by position.
PolishUpper == <<260, 262, 280, 321, 323, 211, 346, 379, 377>>
PolishLower == <<261, 263, 281, 322, 324, 243, 347, 380, 378>>

IsAsciiUpper(c) == c >= 65 /\ c <= 90      \* A-Z
IsAsciiLower(c) == c >= 97 /\ c <= 122     \* a-z
IsPolishUpper(c) == \E i \in 1..Len(PolishUpper) : PolishUpper[i] = c
IsPolishLower(c) == \E i \in 1..Len(PolishLower) : PolishLower[i] = c

\* str.isupper / islower / cased, for one character
IsUpperChar(c) == IsAsciiUpper(c) \/ IsPolishUpper(c)
IsLowerChar(c) == IsAsciiLower(c) \/ IsPolishLower(c)
IsCased(c) == IsUpperChar(c) \/ IsLowerChar(c)

\* \d of the re module, for the characters of the model: 0-9
IsDigit(c) == c >= 48 /\ c <= 57

\* \s of the re module and the characters str.strip() removes: tab, LF, VT, FF, CR, space
IsSpace(c) == (c >= 9 /\ c <= 13) \/ c = 32

\* \w of the re module (str patterns): letters, digits and the underscore
IsWord(c) == IsCased(c) \/ IsDigit(c) \/ c = 95

\* the range Ā-ſ (Latin Extended-A)
IsLatinExtA(c) == c >= 256 /\ c <= 383

LowerChar(c) ==
    IF IsAsciiUpper(c) THEN c + 32
    ELSE IF IsPolishUpper(c)
         THEN PolishLower[CHOOSE i \in 1..Len(PolishUpper) : PolishUpper[i] = c]
         ELSE c

UpperChar(c) ==
    IF IsAsciiLower(c) THEN c - 32
    ELSE IF IsPolishLower(c)
         THEN PolishUpper[CHOOSE i \in 1..Len(PolishLower) : PolishLower[i] = c]
         ELSE c

-----------------------------------------------------------------------------
(* String methods *)

\* str.lower()
Lower(s) == [i \in 1..Len(s) |-> LowerChar(s[i])]

\* str.upper()
Upper(s) == [i \in 1..Len(s) |-> UpperChar(s[i])]

\* str.title(): a cased character is upper-cased when the character before it is
\* not cased (or there is none) and lower-cased otherwise; the others are kept.
Title(s) ==
    [i \in 1..Len(s) |->
        IF ~IsCased(s[i]) THEN s[i]
        ELSE IF i > 1 /\ IsCased(s[i-1]) THEN LowerChar(s[i])
             ELSE UpperChar(s[i])]

\* str.strip(): drops the leading and the trailing whitespace
Strip(s) ==
    LET keep == {i \in 1..Len(s) : ~IsSpace(s[i])}
    IN  IF keep = {} THEN <<>>
        ELSE LET lo == CHOOSE i \in keep : \A j \in keep : i <= j
                 hi == CHOOSE i \in keep : \A j \in keep : j <= i
             IN  SubSeq(s, lo, hi)

\* str.replace(old, new) for single characters
ReplaceChar(s, old, new) == [i \in 1..Len(s) |-> IF s[i] = old THEN new ELSE s[i]]

\* Python's order on strings: lexicographic by code point
RECURSIVE StrLess(_, _)
StrLess(s, t) ==
    IF t = <<>> THEN FALSE
    ELSE IF s = <<>> THEN TRUE
    ELSE IF Head(s) # Head(t) THEN Head(s) < Head(t)
    ELSE StrLess(Tail(s), Tail(t))

\* sorted(S) for a set of strings
RECURSIVE SortedStrings(_)
SortedStrings(S) ==
    IF S = {} THEN <<>>
    ELSE LET least == CHOOSE s \in S : \A t \in S : s = t \/ StrLess(s, t)
         IN  <<least>> \o SortedStrings(S \ {least})

\* sep.join(list)
RECURSIVE Join(_, _)
Join(sep, list) ==
    IF list = <<>> THEN <<>>
    ELSE IF Len(list) = 1 THEN list[1]
    ELSE list[1] \o sep \o Join(sep, Tail(list))

-----------------------------------------------------------------------------
(* Reference tables *)

\* the canonical city names
Krakow   == <<75, 114, 97, 107, 243, 119>>              \* "Kraków"
Lodz     == <<321, 243, 100, 378>>                      \* "Łódź"
Warszawa == <<87, 97, 114, 115, 122, 97, 119, 97>>      \* "Warszawa"
Poznan   == <<80, 111, 122, 110, 97, 324>>              \* "Poznań"

\* the train identifiers
IC1234  == <<73, 67, 32, 49, 50, 51, 52>>               \* "IC 1234"
TLK4567 == <<84, 76, 75, 32, 52, 53, 54, 55>>           \* "TLK 4567"
EIP123  == <<69, 73, 80, 32, 49, 50, 51>>               \* "EIP 123"

\* "HH:MM" from its four digits
HHMM(a, b, c, d) == <<48 + a, 48 + b, 58, 48 + c, 48 + d>>

\* SCHEDULES, in insertion order (a dict iterates in insertion order)
SCHEDULES == <<
    [key |-> <<Krakow, Lodz>>,
     val |-> <<HHMM(0,4,4,5), HHMM(0,8,3,0), HHMM(1,2,2,0), HHMM(1,6,0,0), HHMM(2,0,1,5)>>],
    [key |-> <<Lodz, Krakow>>,
     val |-> <<HHMM(0,5,1,0), HHMM(0,9,0,0), HHMM(1,3,4,5), HHMM(1,8,2,0)>>],
    [key |-> <<Warszawa, Poznan>>,
     val |-> <<HHMM(0,6,0,0), HHMM(0,7,3,0), HHMM(0,9,0,0), HHMM(1,1,4,5), HHMM(1,4,3,0)>>],
    [key |-> <<Poznan, Warszawa>>,
     val |-> <<HHMM(0,5,5,0), HHMM(1,0,1,0), HHMM(1,3,0,0), HHMM(1,7,2,5)>>],
    [key |-> <<Warszawa, Krakow>>,
     val |-> <<HHMM(0,5,3,0), HHMM(0,9,4,0), HHMM(1,5,1,0), HHMM(1,9,0,0)>>] >>

\* The tables' texts, as strings (the comment gives each without its diacritics).
DELAYS_CITY == <<
    \* "utrudnienia: w kierunku Warszawa; na odcinku Krakow - Wadowice wystepuja objazdy."
    [key |-> Krakow, val |->
        <<117, 116, 114, 117, 100, 110, 105, 101, 110, 105, 97, 58, 32, 119, 32, 107, 105, 101, 114, 117, 110, 107, 117, 32, 87, 97, 114, 115, 122, 97, 119, 97, 59, 32, 110, 97, 32, 111, 100, 99, 105, 110, 107, 117, 32, 75, 114, 97, 107, 243, 119, 32, 45, 32, 87, 97, 100, 111, 119, 105, 99, 101, 32, 119, 121, 115, 116, 281, 112, 117, 106, 261, 32, 111, 98, 106, 97, 122, 100, 121, 46>>],
    \* "komunikacja zastepcza na odcinku Koluszki - Skierniewice (do odwolania)."
    [key |-> Lodz, val |->
        <<107, 111, 109, 117, 110, 105, 107, 97, 99, 106, 97, 32, 122, 97, 115, 116, 281, 112, 99, 122, 97, 32, 110, 97, 32, 111, 100, 99, 105, 110, 107, 117, 32, 75, 111, 108, 117, 115, 122, 107, 105, 32, 45, 32, 83, 107, 105, 101, 114, 110, 105, 101, 119, 105, 99, 101, 32, 40, 100, 111, 32, 111, 100, 119, 111, 322, 97, 110, 105, 97, 41, 46>>],
    \* "utrudnienia w ruchu w strone Radomia, mozliwe krotkie opoznienia."
    [key |-> Warszawa, val |->
        <<117, 116, 114, 117, 100, 110, 105, 101, 110, 105, 97, 32, 119, 32, 114, 117, 99, 104, 117, 32, 119, 32, 115, 116, 114, 111, 110, 281, 32, 82, 97, 100, 111, 109, 105, 97, 44, 32, 109, 111, 380, 108, 105, 119, 101, 32, 107, 114, 243, 116, 107, 105, 101, 32, 111, 112, 243, 378, 110, 105, 101, 110, 105, 97, 46>>],
    \* "brak ogloszonych utrudnien."
    [key |-> Poznan, val |->
        <<98, 114, 97, 107, 32, 111, 103, 322, 111, 115, 122, 111, 110, 121, 99, 104, 32, 117, 116, 114, 117, 100, 110, 105, 101, 324, 46>>] >>

DELAYS_TRAIN == <<
    \* "opozniony o 20 minut"
    [key |-> IC1234, val |->
        <<111, 112, 243, 378, 110, 105, 111, 110, 121, 32, 111, 32, 50, 48, 32, 109, 105, 110, 117, 116>>],
    \* "odwolany na odcinku Warszawa - Lodz"
    [key |-> TLK4567, val |->
        <<111, 100, 119, 111, 322, 97, 110, 121, 32, 110, 97, 32, 111, 100, 99, 105, 110, 107, 117, 32, 87, 97, 114, 115, 122, 97, 119, 97, 32, 45, 32, 321, 243, 100, 378>>],
    \* "kursuje zgodnie z rozkladem"
    [key |-> EIP123, val |->
        <<107, 117, 114, 115, 117, 106, 101, 32, 122, 103, 111, 100, 110, 105, 101, 32, 122, 32, 114, 111, 122, 107, 322, 97, 100, 101, 109>>] >>

TICKET_PRICES == <<
    \* "50 zl (standardowy)"
    [key |-> <<Lodz, Krakow>>, val |->
        <<53, 48, 32, 122, 322, 32, 40, 115, 116, 97, 110, 100, 97, 114, 100, 111, 119, 121, 41>>],
    \* "80 zl (standardowy)"
    [key |-> <<Warszawa, Poznan>>, val |->
        <<56, 48, 32, 122, 322, 32, 40, 115, 116, 97, 110, 100, 97, 114, 100, 111, 119, 121, 41>>],
    \* "90 zl (standardowy)"
    [key |-> <<Warszawa, Krakow>>, val |->
        <<57, 48, 32, 122, 322, 32, 40, 115, 116, 97, 110, 100, 97, 114, 100, 111, 119, 121, 41>>] >>

PLATFORMS == <<
    \* "peron 5"
    [key |-> IC1234, val |->
        <<112, 101, 114, 111, 110, 32, 53>>],
    \* "peron 2"
    [key |-> TLK4567, val |->
        <<112, 101, 114, 111, 110, 32, 50>>],
    \* "peron 7"
    [key |-> EIP123, val |->
        <<112, 101, 114, 111, 110, 32, 55>>] >>

TRAIN_TYPES == <<
    \* "IC"
    [key |-> <<Lodz, Krakow>>, val |->
        <<73, 67>>],
    \* "EIP"
    [key |-> <<Warszawa, Poznan>>, val |->
        <<69, 73, 80>>],
    \* "EIP/IC (w zaleznosci od kursu)"
    [key |-> <<Warszawa, Krakow>>, val |->
        <<69, 73, 80, 47, 73, 67, 32, 40, 119, 32, 122, 97, 108, 101, 380, 110, 111, 347, 99, 105, 32, 111, 100, 32, 107, 117, 114, 115, 117, 41>>] >>

TRAIN_SERVICES == <<
    \* "Wi-Fi" "restauracja" "klimatyzacja" "wagon sypialny (na wybranych kursach)"
    [key |-> IC1234, val |-> <<
        <<87, 105, 45, 70, 105>>,
        <<114, 101, 115, 116, 97, 117, 114, 97, 99, 106, 97>>,
        <<107, 108, 105, 109, 97, 116, 121, 122, 97, 99, 106, 97>>,
        <<119, 97, 103, 111, 110, 32, 115, 121, 112, 105, 97, 108, 110, 121, 32, 40, 110, 97, 32, 119, 121, 98, 114, 97, 110, 121, 99, 104, 32, 107, 117, 114, 115, 97, 99, 104, 41>> >>],
    \* "klimatyzacja"
    [key |-> TLK4567, val |-> <<
        <<107, 108, 105, 109, 97, 116, 121, 122, 97, 99, 106, 97>> >>],
    \* "Wi-Fi" "restauracja" "przedzialy 1 klasy"
    [key |-> EIP123, val |-> <<
        <<87, 105, 45, 70, 105>>,
        <<114, 101, 115, 116, 97, 117, 114, 97, 99, 106, 97>>,
        <<112, 114, 122, 101, 100, 122, 105, 97, 322, 121, 32, 49, 32, 107, 108, 97, 115, 121>> >>] >>

\* key in table
HasKey(table, k) == \E i \in 1..Len(table) : table[i].key = k

\* table[key], for a key the table has
Lookup(table, k) == table[CHOOSE i \in 1..Len(table) : table[i].key = k].val

\* dict.get(key): the value, or None when the key is absent
Get(table, k) == IF HasKey(table, k) THEN Lookup(table, k) ELSE None

\* KNOWN_CITIES: the sorted list of the cities of SCHEDULES' keys and DELAYS_CITY's keys
KNOWN_CITIES ==
    SortedStrings({SCHEDULES[i].key[j] : i \in 1..Len(SCHEDULES), j \in 1..2}
                  \cup {DELAYS_CITY[i].key : i \in 1..Len(DELAYS_CITY)})

\* CITY_ALIASES as (key, value) pairs in insertion order
CITY_ALIASES == <<
    [key |-> <<75, 114, 97, 107, 111, 119, 97>>,          val |-> Krakow],    \* "Krakowa"
    [key |-> <<75, 114, 97, 107, 111, 119, 105, 101>>,    val |-> Krakow],    \* "Krakowie"
    [key |-> <<75, 114, 97, 107, 243, 119>>,              val |-> Krakow],    \* "Kraków"
    [key |-> <<75, 114, 97, 107, 111, 119>>,              val |-> Krakow],    \* "Krakow"
    [key |-> <<321, 111, 100, 122, 105>>,                 val |-> Lodz],      \* "Łodzi"
    [key |-> <<321, 243, 100, 378>>,                      val |-> Lodz],      \* "Łódź"
    [key |-> <<76, 111, 100, 122>>,                       val |-> Lodz],      \* "Lodz"
    [key |-> <<87, 97, 114, 115, 122, 97, 119, 121>>,     val |-> Warszawa],  \* "Warszawy"
    [key |-> <<87, 97, 114, 115, 122, 97, 119, 105, 101>>, val |-> Warszawa], \* "Warszawie"
    [key |-> <<87, 97, 114, 115, 122, 97, 119, 97>>,      val |-> Warszawa],  \* "Warszawa"
    [key |-> <<80, 111, 122, 110, 97, 110, 105, 97>>,     val |-> Poznan],    \* "Poznania"
    [key |-> <<80, 111, 122, 110, 97, 324>>,              val |-> Poznan] >>  \* "Poznań"

-----------------------------------------------------------------------------
(* difflib: SequenceMatcher.ratio and get_close_matches.  Strings here are    *)
(* far shorter than 200 characters, so the matcher's "autojunk" never applies. *)

\* the length of the common run of a from i and b from j (0-based), inside
\* a[i:ahi] and b[j:bhi]
RECURSIVE RunLen(_, _, _, _, _, _)
RunLen(a, b, i, j, ahi, bhi) ==
    IF i < ahi /\ j < bhi /\ a[i + 1] = b[j + 1]
    THEN 1 + RunLen(a, b, i + 1, j + 1, ahi, bhi)
    ELSE 0

\* SequenceMatcher.find_longest_match(alo, ahi, blo, bhi): the longest block
\* a[i:i+k] = b[j:j+k] inside a[alo:ahi], b[blo:bhi]; among the longest the one
\* starting earliest in a, and among those the one starting earliest in b;
\* (alo, blo, 0) when there is none.
find_longest_match(a, b, alo, ahi, blo, bhi) ==
    LET starts == (alo..(ahi - 1)) \X (blo..(bhi - 1))
        Pick(len) ==
            LET longest == {p \in starts : len[p] > 0 /\ \A q \in starts : len[q] <= len[p]}
                Earliest(ps) ==
                    LET first == {p \in ps : \A q \in ps : p[1] <= q[1]}
                        best == CHOOSE p \in first : \A q \in first : p[2] <= q[2]
                    IN  [i |-> best[1], j |-> best[2], k |-> len[best]]
            IN  IF longest = {} THEN [i |-> alo, j |-> blo, k |-> 0]
                ELSE With(longest, Earliest)
    IN  With([p \in starts |-> RunLen(a, b, p[1], p[2], ahi, bhi)], Pick)

\* the total size of SequenceMatcher.get_matching_blocks(): the longest block,
\* then the same to its left and to its right
RECURSIVE MatchingSize(_, _, _, _, _, _)
MatchingSize(a, b, alo, ahi, blo, bhi) ==
    LET Size(m) ==
            IF m.k = 0 THEN 0
            ELSE m.k
                 + (IF alo < m.i /\ blo < m.j
                    THEN MatchingSize(a, b, alo, m.i, blo, m.j) ELSE 0)
                 + (IF m.i + m.k < ahi /\ m.j + m.k < bhi
                    THEN MatchingSize(a, b, m.i + m.k, ahi, m.j + m.k, bhi) ELSE 0)
    IN  With(find_longest_match(a, b, alo, ahi, blo, bhi), Size)

\* SequenceMatcher(None, a, b).ratio() = 2.0 * matches / (len(a) + len(b)), kept as
\* the fraction [num, den]; 1.0 when both are empty
Ratio(a, b) ==
    IF Len(a) + Len(b) = 0 THEN [num |-> 1, den |-> 1]
    ELSE [num |-> 2 * MatchingSize(a, b, 0, Len(a), 0, Len(b)), den |-> Len(a) + Len(b)]

\* get_close_matches(word, possibilities, n=1, cutoff=0.6): the possibilities x with
\* ratio(x, word) >= 0.6 (quick_ratio and real_quick_ratio are upper bounds of ratio
\* and exclude nothing more); of these the largest (ratio, x) pair, as a list of at
\* most one string.
get_close_matches(word, possibilities) ==
    LET Best(score) ==
            LET close == {i \in 1..Len(possibilities) :
                             10 * score[i].num >= 6 * score[i].den}
                Larger(i, j) ==
                    \/ score[i].num * score[j].den > score[j].num * score[i].den
                    \/ /\ score[i].num * score[j].den = score[j].num * score[i].den
                       /\ (possibilities[i] = possibilities[j]
                           \/ StrLess(possibilities[j], possibilities[i]))
            IN  IF close = {} THEN <<>>
                ELSE <<possibilities[CHOOSE i \in close : \A j \in close : Larger(i, j)]>>
    IN  With([i \in 1..Len(possibilities) |-> Ratio(possibilities[i], word)], Best)

-----------------------------------------------------------------------------
(* The normalisation functions *)

\* normalize_text: None for a falsy text; else the stripped text without the
\* characters outside [\w\s\-Ā-ſ]
normalize_text(text) ==
    IF ~Truthy(text) THEN None
    ELSE LET Keep(c) == IsWord(c) \/ IsSpace(c) \/ c = 45 \/ IsLatinExtA(c)
         IN  SelectSeq(Strip(text), Keep)

\* Faulty variant: the emptiness test made after strip(), so that whitespace-only
\* input gives None.
normalize_city_strip_first(r) ==
    IF r = None \/ Strip(r) = <<>> THEN None
    ELSE
    LET Resolve(s) ==
            LET ci == {i \in 1..Len(CITY_ALIASES) : Lower(CITY_ALIASES[i].key) = Lower(s)}
                Fuzzy(candidates) ==
                    IF candidates # <<>> THEN candidates[1] ELSE Title(s)
            IN  IF HasKey(CITY_ALIASES, s) THEN Lookup(CITY_ALIASES, s)
                ELSE IF ci # {}
                     THEN CITY_ALIASES[CHOOSE i \in ci : \A j \in ci : i <= j].val
                ELSE With(get_close_matches(s, KNOWN_CITIES), Fuzzy)
    IN  With(Strip(r), Resolve)

\* Faulty variant: without the case-insensitive pass over the alias table.
normalize_city_case_sensitive(r) ==
    IF ~Truthy(r) THEN None
    ELSE
    LET Resolve(s) ==
            LET low == ReplaceChar(Lower(s), 322, 108)
                folded == {i \in 1..Len(KNOWN_CITIES) :
                              ReplaceChar(Lower(KNOWN_CITIES[i]), 322, 108) = low}
                Fuzzy(candidates) ==
                    IF candidates # <<>> THEN candidates[1]
                    ELSE IF folded # {}
                         THEN KNOWN_CITIES[CHOOSE i \in folded : \A j \in folded : i <= j]
                    ELSE Title(s)
            IN  IF HasKey(CITY_ALIASES, s) THEN Lookup(CITY_ALIASES, s)
                ELSE With(get_close_matches(s, KNOWN_CITIES), Fuzzy)
    IN  With(Strip(r), Resolve)

\* normalize_city
normalize_city(r) ==
    IF ~Truthy(r) THEN None
    ELSE
    LET Resolve(s) ==
            LET ci == {i \in 1..Len(CITY_ALIASES) : Lower(CITY_ALIASES[i].key) = Lower(s)}
                low == ReplaceChar(Lower(s), 322, 108)
                folded == {i \in 1..Len(KNOWN_CITIES) :
                              ReplaceChar(Lower(KNOWN_CITIES[i]), 322, 108) = low}
                Fuzzy(candidates) ==
                    IF candidates # <<>> THEN candidates[1]
                    ELSE IF folded # {}
                         THEN KNOWN_CITIES[CHOOSE i \in folded : \A j \in folded : i <= j]
                    ELSE Title(s)
            IN  IF HasKey(CITY_ALIASES, s) THEN Lookup(CITY_ALIASES, s)
                ELSE IF ci # {}
                     THEN CITY_ALIASES[CHOOSE i \in ci : \A j \in ci : i <= j].val
                ELSE With(get_close_matches(s, KNOWN_CITIES), Fuzzy)
    IN  With(Strip(r), Resolve)

\* The pattern of normalize_train_number, ([A-ZĄĆĘŁŃÓŚŻŹ]{1,4})\s*-?\s*(\d{1,5}),
\* matched by re.match: at the start of the string, and not necessarily to its end.
IsPatternLetter(c) == IsAsciiUpper(c) \/ IsPolishUpper(c)

\* seg matches \s*-?\s*: whitespace with at most one hyphen in it
MatchesSeparator(seg) ==
    /\ \A i \in 1..Len(seg) : IsSpace(seg[i]) \/ seg[i] = 45
    /\ Cardinality({i \in 1..Len(seg) : seg[i] = 45}) <= 1

\* the number of leading characters of s that are digits
RECURSIVE DigitRun(_)
DigitRun(s) == IF s # <<>> /\ IsDigit(Head(s)) THEN 1 + DigitRun(Tail(s)) ELSE 0

\* re.match(pattern, s): the groups [letters, digits] of the match, or None.  A
\* match puts n letters (1 to 4) at the start, a separator up to position p and a
\* digit at p; the quantifiers are greedy, so the first group is the longest that
\* admits a match and the second takes up to five of the digits from p.
train_number_match(s) ==
    LET ms == {m \in (1..4) \X (1..Len(s)) :
                 /\ m[1] < m[2]
                 /\ \A i \in 1..m[1] : IsPatternLetter(s[i])
                 /\ MatchesSeparator(SubSeq(s, m[1] + 1, m[2] - 1))
                 /\ IsDigit(s[m[2]])}
    IN  IF ms = {} THEN None
        ELSE LET m == CHOOSE x \in ms : \A y \in ms : y[1] <= x[1]
                 d == Min(5, DigitRun(SubSeq(s, m[2], Len(s))))
             IN  <<SubSeq(s, 1, m[1]), SubSeq(s, m[2], m[2] + d - 1)>>

\* normalize_train_number
normalize_train_number(r) ==
    IF ~Truthy(r) THEN None
    ELSE LET s == Upper(Strip(r))
             m == train_number_match(s)
         IN  IF m # None THEN m[1] \o <<32>> \o m[2] ELSE s

-----------------------------------------------------------------------------
(* Times *)

\* int(text) for a string of decimal digits
RECURSIVE ParseInt(_)
ParseInt(s) ==
    IF s = <<>> THEN 0 ELSE 10 * ParseInt(SubSeq(s, 1, Len(s) - 1)) + (s[Len(s)] - 48)

\* time_str_to_minutes: t.split(":") gives the hour and the minute texts (t holds
\* one colon), int() reads each
time_str_to_minutes(t) ==
    LET colon == CHOOSE i \in 1..Len(t) : t[i] = 58
        h == ParseInt(SubSeq(t, 1, colon - 1))
        m == ParseInt(SubSeq(t, colon + 1, Len(t)))
    IN  h * 60 + m

\* the format {n:02d}, for 0 <= n < 100
TwoDigits(n) == <<48 + (n \div 10), 48 + (n % 10)>>

\* minutes_to_time_str
minutes_to_time_str(m) ==
    LET h  == (m \div 60) % 24
        mm == m % 60
    IN  TwoDigits(h) \o <<58>> \o TwoDigits(mm)

\* sorted(list) for a list of integers
RECURSIVE SortedInts(_)
SortedInts(list) ==
    IF list = <<>> THEN <<>>
    ELSE LET i == CHOOSE x \in 1..Len(list) : \A y \in 1..Len(list) : list[x] <= list[y]
         IN  <<list[i]>> \o SortedInts(SubSeq(list, 1, i - 1) \o SubSeq(list, i + 1, Len(list)))

\* Faulty variant: the minutes are scanned in the order listed, not sorted.
find_next_train_unsorted(trains, current_min) ==
    IF ~TruthyList(trains) THEN None
    ELSE LET mins == [i \in 1..Len(trains) |-> time_str_to_minutes(trains[i])]
             later == {i \in 1..Len(mins) : mins[i] >= current_min}
         IN  IF later # {}
             THEN minutes_to_time_str(mins[CHOOSE i \in later : \A j \in later : i <= j])
             ELSE minutes_to_time_str(mins[1])

\* find_next_train, with current_min the minute-of-day that now_warsaw() gives
find_next_train(trains, current_min) ==
    IF ~TruthyList(trains) THEN None
    ELSE LET mins == SortedInts([i \in 1..Len(trains) |-> time_str_to_minutes(trains[i])])
             later == {i \in 1..Len(mins) : mins[i] >= current_min}
         IN  IF later # {}
             THEN minutes_to_time_str(mins[CHOOSE i \in later : \A j \in later : i <= j])
             ELSE minutes_to_time_str(mins[1])

-----------------------------------------------------------------------------
(* Bounds and inputs *)

\* the longest string of the exhaustive part of the city inputs
MaxRawLen == 2

\* the longest string of the exhaustive part of the train-number inputs
MaxTrainLen == 4

\* the longest list of times given to find_next_train
MaxTrains == 3

\* all strings over alphabet of length at most n
RECURSIVE Strings(_, _)
Strings(alphabet, n) ==
    IF n = 0 THEN {<<>>}
    ELSE LET shorter == Strings(alphabet, n - 1)
         IN  shorter \cup {<<c>> \o t : c \in alphabet, t \in {x \in shorter : Len(x) = n - 1}}

\* all lists over S of length at most n
RECURSIVE Lists(_, _)
Lists(S, n) ==
    IF n = 0 THEN {<<>>}
    ELSE LET shorter == Lists(S, n - 1)
         IN  shorter \cup {<<x>> \o l : x \in S, l \in {y \in shorter : Len(y) = n - 1}}

\* the strings that differ from k in letter case only
RECURSIVE CaseVariants(_)
CaseVariants(k) ==
    IF k = <<>> THEN {<<>>}
    ELSE {<<c>> \o t : c \in {LowerChar(Head(k)), UpperChar(Head(k))},
                       t \in CaseVariants(Tail(k))}

\* The arguments normalize_city is applied to: None, every string of at most
\* MaxRawLen characters over " ", "!", "K", "a", "r", "l/", every spelling of an
\* alias key in any letter case, and misspelt, padded and unknown names.
CityInputs ==
    {None}
    \cup Strings({32, 33, 75, 97, 114, 322}, MaxRawLen)
    \cup UNION {CaseVariants(CITY_ALIASES[i].key) : i \in 1..Len(CITY_ALIASES)}
    \cup {
        <<32, 75, 114, 97, 107, 111, 119, 97, 32>>,          \* " Krakowa "
        <<9, 108, 111, 100, 122>>,                           \* "\tlodz"
        <<80, 111, 122, 110, 97, 110>>,                      \* "Poznan"
        <<75, 114, 97, 107, 119>>,                           \* "Krakw"
        <<87, 97, 114, 115, 97, 119>>,                       \* "Warsaw"
        <<75, 114, 97>>,                                     \* "Kra"
        <<322, 243, 100, 378>>,                              \* "l/o'dz'"
        <<76, 211, 68, 377>>,                                \* "LO'DZ'"
        <<71, 100, 121, 110, 105, 97>>,                      \* "Gdynia"
        <<103, 100, 121, 110, 105, 97>>,                     \* "gdynia"
        <<110, 111, 119, 121, 32, 115, 261, 99, 122>>,       \* "nowy sa,cz"
        <<71, 100, 97, 324, 115, 107, 33>>,                  \* "Gdan'sk!"
        <<32>>,                                              \* " "
        <<32, 32>>,                                          \* "  "
        <<33, 63>>                                           \* "!?"
        }

\* The arguments normalize_train_number is applied to: None, every string of at
\* most MaxTrainLen characters over " ", "-", "1", "C", "i", and sample identifiers.
TrainInputs ==
    {None}
    \cup Strings({32, 45, 49, 67, 105}, MaxTrainLen)
    \cup {
        <<105, 99, 49, 50, 51, 52>>,                         \* "ic1234"
        <<116, 108, 107, 45, 52, 53, 54, 55>>,               \* "tlk-4567"
        <<120, 121, 122>>,                                   \* "xyz"
        <<73, 67, 32, 49, 50, 51, 52>>,                      \* "IC 1234"
        <<32, 101, 105, 112, 32, 49, 50, 51, 32>>,           \* " eip 123 "
        <<105, 99, 49, 50, 51, 52, 120>>,                    \* "ic1234x"
        <<73, 67, 32, 49, 50, 51, 52, 53, 54>>,              \* "IC 123456"
        <<97, 98, 99, 100, 101, 49>>,                        \* "abcde1"
        <<105, 99, 32, 45, 32, 49, 50>>,                     \* "ic - 12"
        <<105, 99, 45, 45, 49, 50>>,                         \* "ic--12"
        <<49, 50, 51, 52>>,                                  \* "1234"
        <<322, 107, 115, 32, 55>>,                           \* "l/ks 7"
        <<116, 108, 107, 52, 53, 54, 55>>,                   \* "tlk4567"
        <<69, 73, 80, 45, 49, 50, 51>>                       \* "EIP-123"
        }

\* The time strings find_next_train is applied to: zero-padded times of day, and
\* three strings int() reads that are not ("5:10", "24:00", "05:75").
TimeInputs ==
    {HHMM(0,0,0,0), HHMM(0,5,1,0), HHMM(0,9,0,0), HHMM(1,3,4,5), HHMM(2,3,5,9),
     <<53, 58, 49, 48>>, HHMM(2,4,0,0), HHMM(0,5,7,5)}

\* The minutes of the day now_warsaw() is read at: midnight, the last minute, and
\* each time of TimeInputs with the minute before and after it.
ClockInputs ==
    {m \in 0..1439 : \/ m \in {0, 1439}
                     \/ \E t \in TimeInputs, d \in {-1, 0, 1} : time_str_to_minutes(t) + d = m}

\* the most entities the latest message carries
MaxEntities == 1

\* the values of the departure_city and arrival_city slots
RouteSlotInputs ==
    {None,
     <<75, 114, 97, 107, 111, 119, 97>>,   \* "Krakowa"
     <<108, 111, 100, 122>>,        \* "lodz"
     <<87, 97, 114, 115, 122, 97, 119, 121>>,    \* "Warszawy"
     <<71, 100, 121, 110, 105, 97>>}      \* "Gdynia"

\* the values of the delay_city slot
DelaySlotInputs ==
    {None,
     <<107, 114, 97, 107, 111, 119, 105, 101>>,    \* "krakowie"
     <<71, 100, 121, 110, 105, 97>>}      \* "Gdynia"

\* the values of the train_number slot
TrainSlotInputs ==
    {None,
     <<105, 99, 49, 50, 51, 52>>,      \* "ic1234"
     <<120, 121, 122>>}         \* "xyz"

\* the entities a message may carry
EntityInputs ==
    {[entity |-> "departure_city", value |-> <<80, 111, 122, 110, 97, 110, 105, 97>>],      \* "Poznania"
     [entity |-> "arrival_city",   value |-> <<80, 111, 122, 110, 97, 110, 105, 97>>],      \* "Poznania"
     [entity |-> "from_city",      value |-> <<321, 111, 100, 122, 105>>],    \* "Łodzi"
     [entity |-> "to_city",        value |-> <<75, 114, 97, 107, 111, 119, 97>>],     \* "Krakowa"
     [entity |-> "delay_city",     value |-> <<321, 111, 100, 122, 105>>],    \* "Łodzi"
     [entity |-> "train_number",   value |-> <<116, 108, 107, 45, 52, 53, 54, 55>>]}     \* "tlk-4567"

\* the intent names the handlers test, one they do not, and a message without intent
IntentInputs ==
    {"ask_schedule", "ask_schedule_next", "ask_schedule_all", "ask_schedule_connection",
     "ask_delay", "ask_delay_city", "ask_delay_train", "ask_ticket_price", NoIntent}

\* the minutes of the day now_warsaw() is read at by a handler: 10:00 and 23:00
HandlerClockInputs == {10 * 60, 23 * 60}

Trackers ==
    {[slots |-> [departure_city |-> d, arrival_city |-> a, delay_city |-> c, train_number |-> n],
      entities |-> e, intent |-> i] :
        d \in RouteSlotInputs, a \in RouteSlotInputs, c \in DelaySlotInputs,
        n \in TrainSlotInputs, e \in Lists(EntityInputs, MaxEntities), i \in IntentInputs}

\* the city texts the handlers meet in these snapshots
HandlerCityInputs ==
    (RouteSlotInputs \cup DelaySlotInputs \cup {e.value : e \in EntityInputs}) \ {None}

\* normalize_city(normalize_text(x)) over HandlerCityInputs, evaluated once
ResolvedCity == [x \in HandlerCityInputs |-> normalize_city(normalize_text(x))]

-----------------------------------------------------------------------------
(* Pure-function runs: Init draws the argument, the action applies the function *)

\* the handler variables while no handler is involved
NoTracker == [slots |-> <<>>, entities |-> <<>>, intent |-> None]

HandlerIdle ==
    /\ tracker = NoTracker
    /\ handler = "none"
    /\ messages = <<>>
    /\ events = NotReturned

PureInit(inputs) ==
    /\ fn = "none"
    /\ raw \in inputs
    /\ clock = NoClock
    /\ out = NotReturned
    /\ HandlerIdle

InitCity == PureInit(CityInputs)

CallNormalizeCity ==
    /\ fn = "none"
    /\ fn' = "normalize_city"
    /\ out' = normalize_city(raw)
    /\ UNCHANGED <<raw, clock, tracker, handler, messages, events>>

NextCity == CallNormalizeCity

SpecCity == InitCity /\ [][NextCity]_vars

InitTrainNumber == PureInit(TrainInputs)

CallNormalizeTrainNumber ==
    /\ fn = "none"
    /\ fn' = "normalize_train_number"
    /\ out' = normalize_train_number(raw)
    /\ UNCHANGED <<raw, clock, tracker, handler, messages, events>>

NextTrainNumber == CallNormalizeTrainNumber

SpecTrainNumber == InitTrainNumber /\ [][NextTrainNumber]_vars

InitNextTrain == PureInit({NoList} \cup Lists(TimeInputs, MaxTrains))

\* find_next_train reads the clock only after the test of its argument
CallFindNextTrain ==
    /\ fn = "none"
    /\ fn' = "find_next_train"
    /\ \E now \in ClockInputs :
          /\ clock' = IF TruthyList(raw) THEN now ELSE NoClock
          /\ out' = find_next_train(raw, now)
    /\ UNCHANGED <<raw, tracker, handler, messages, events>>

NextNextTrain == CallFindNextTrain

SpecNextTrain == InitNextTrain /\ [][NextNextTrain]_vars

-----------------------------------------------------------------------------
(* The handlers.  A tracker is [slots, entities, intent]: the slot values, the  *)
(* entities of the latest message in order, each [entity, value], and the name  *)
(* of its intent (NoIntent when the message carries none).  A reply is the      *)
(* template of the utter_message call and the values put into it.               *)

Reply(template, args) == [template |-> template, args |-> args]

\* what run leaves behind: the dispatcher's messages, the returned list, and the
\* minute now_warsaw() gave if it was read
Done(msgs, now) == [messages |-> msgs, events |-> <<>>, clock |-> now]

\* a or b
Or(a, b) == IF Truthy(a) THEN a ELSE b

\* Faulty variant: the test "and not current" is missing, so a matching entity
\* replaces the slot's value.
RECURSIVE ScanEntities_entity_first(_, _, _)
ScanEntities_entity_first(ents, names, current) ==
    IF ents = <<>> THEN current
    ELSE ScanEntities_entity_first(Tail(ents), names,
                                   IF Head(ents).entity \in names
                                   THEN Head(ents).value ELSE current)

\* the loop "for ent in entities: if ent.entity == name and not current: current =
\* ent.value", for the names that feed one field
RECURSIVE ScanEntities(_, _, _)
ScanEntities(ents, names, current) ==
    IF ents = <<>> THEN current
    ELSE ScanEntities(Tail(ents), names,
                      IF Head(ents).entity \in names /\ ~Truthy(current)
                      THEN Head(ents).value ELSE current)

\* next(tracker.get_latest_entity_values(name), None)
FirstEntityValue(ents, name) ==
    LET hits == {i \in 1..Len(ents) : ents[i].entity = name}
    IN  IF hits = {} THEN None
        ELSE ents[CHOOSE i \in hits : \A j \in hits : i <= j].value

\* normalize_city(normalize_text(x)) if x else None
ResolveCity(x) == IF Truthy(x) THEN ResolvedCity[x] ELSE None

\* normalize_train_number(x) if x else None
ResolveTrain(x) == IF Truthy(x) THEN normalize_train_number(x) ELSE None

\* Faulty variant: the reversed pair is not looked up.
ScheduleNoRoute_no_reverse(departure, arrival) ==
    LET alternatives == {i \in 1..Len(SCHEDULES) :
                            \/ Lower(SCHEDULES[i].key[1]) = Lower(departure)
                            \/ Lower(SCHEDULES[i].key[2]) = Lower(arrival)}
        sample == SCHEDULES[CHOOSE i \in alternatives : \A j \in alternatives : i <= j]
    IN  IF alternatives # {}
        THEN Done(<<Reply("schedule_alternative",
                          <<departure, arrival, sample.key[1], sample.key[2],
                            Join(<<44, 32>>, sample.val)>>)>>, NoClock)
        ELSE Done(<<Reply("schedule_none", <<departure, arrival>>)>>, NoClock)

\* ActionShowSchedule.run when (departure, arrival) is no key of SCHEDULES: the
\* reversed pair, else the first stored route sharing the departure or the arrival
\* city, else no data
ScheduleNoRoute(departure, arrival) ==
    LET reverse == <<arrival, departure>>
        alternatives == {i \in 1..Len(SCHEDULES) :
                            \/ Lower(SCHEDULES[i].key[1]) = Lower(departure)
                            \/ Lower(SCHEDULES[i].key[2]) = Lower(arrival)}
        sample == SCHEDULES[CHOOSE i \in alternatives : \A j \in alternatives : i <= j]
    IN  IF HasKey(SCHEDULES, reverse)
        THEN Done(<<Reply("schedule_reverse", <<arrival, departure>>)>>, NoClock)
        ELSE IF alternatives # {}
        THEN Done(<<Reply("schedule_alternative",
                          <<departure, arrival, sample.key[1], sample.key[2],
                            Join(<<44, 32>>, sample.val)>>)>>, NoClock)
        ELSE Done(<<Reply("schedule_none", <<departure, arrival>>)>>, NoClock)

\* Faulty variant: ask_schedule_connection is not among the intents answered with
\* the full list.
ScheduleRoute_connection_default(departure, arrival, intent, now) ==
    LET trains == Lookup(SCHEDULES, <<departure, arrival>>)
        next_train == find_next_train(trains, now)
    IN  IF intent \in {"ask_schedule_next", "ask_schedule"}
        THEN Done(<<Reply("schedule_next", <<departure, arrival, next_train>>)>>, now)
        ELSE IF intent = "ask_schedule_all"
        THEN Done(<<Reply("schedule_all",
                          <<departure, arrival, Join(<<44, 32>>, trains)>>)>>, NoClock)
        ELSE Done(<<Reply("schedule_all_and_next",
                          <<departure, arrival, Join(<<44, 32>>, trains), next_train>>)>>, now)

\* ActionShowSchedule.run when (departure, arrival) is a key of SCHEDULES: the
\* reply chosen by the intent name
ScheduleRoute(departure, arrival, intent, now) ==
    LET trains == Lookup(SCHEDULES, <<departure, arrival>>)
        next_train == find_next_train(trains, now)
    IN  IF intent \in {"ask_schedule_next", "ask_schedule"}
        THEN Done(<<Reply("schedule_next", <<departure, arrival, next_train>>)>>, now)
        ELSE IF intent = "ask_schedule_all" \/ intent = "ask_schedule_connection"
        THEN Done(<<Reply("schedule_all",
                          <<departure, arrival, Join(<<44, 32>>, trains)>>)>>, NoClock)
        ELSE Done(<<Reply("schedule_all_and_next",
                          <<departure, arrival, Join(<<44, 32>>, trains), next_train>>)>>, now)

\* ActionShowSchedule.run
ActionShowSchedule_run(t, now) ==
    LET departure == ResolveCity(ScanEntities(t.entities, {"departure_city", "from_city"},
                                              t.slots.departure_city))
        arrival   == ResolveCity(ScanEntities(t.entities, {"arrival_city", "to_city"},
                                              t.slots.arrival_city))
    IN  IF ~Truthy(departure) \/ ~Truthy(arrival)
        THEN Done(<<Reply("schedule_prompt", <<>>)>>, NoClock)
        ELSE IF ~HasKey(SCHEDULES, <<departure, arrival>>)
        THEN ScheduleNoRoute(departure, arrival)
        ELSE ScheduleRoute(departure, arrival, t.intent, now)

\* Faulty variant: no return after the city's reply, so the train is looked up too.
DelayFallback_no_return(delay_city, train_number) ==
    LET city_info  == Get(DELAYS_CITY, delay_city)
        train_info == Get(DELAYS_TRAIN, train_number)
        city_reply == IF Truthy(delay_city) /\ Truthy(city_info)
                      THEN <<Reply("delay_city_now", <<delay_city, city_info>>)>> ELSE <<>>
    IN  IF Truthy(train_number) /\ Truthy(train_info)
        THEN Done(city_reply \o <<Reply("delay_train", <<train_number, train_info>>)>>, NoClock)
        ELSE Done(city_reply \o <<Reply("delay_disambiguate", <<>>)>>, NoClock)

\* Faulty variant: the train number is looked up before the city.
DelayFallback_train_first(delay_city, train_number) ==
    LET city_info  == Get(DELAYS_CITY, delay_city)
        train_info == Get(DELAYS_TRAIN, train_number)
    IN  IF Truthy(train_number) /\ Truthy(train_info)
        THEN Done(<<Reply("delay_train", <<train_number, train_info>>)>>, NoClock)
        ELSE IF Truthy(delay_city) /\ Truthy(city_info)
        THEN Done(<<Reply("delay_city_now", <<delay_city, city_info>>)>>, NoClock)
        ELSE Done(<<Reply("delay_disambiguate", <<>>)>>, NoClock)

\* ActionShowDelay.run for an intent that names neither lookup: the city, then the
\* train number, then the request to say which
DelayFallback(delay_city, train_number) ==
    LET city_info  == Get(DELAYS_CITY, delay_city)
        train_info == Get(DELAYS_TRAIN, train_number)
    IN  IF Truthy(delay_city) /\ Truthy(city_info)
        THEN Done(<<Reply("delay_city_now", <<delay_city, city_info>>)>>, NoClock)
        ELSE IF Truthy(train_number) /\ Truthy(train_info)
        THEN Done(<<Reply("delay_train", <<train_number, train_info>>)>>, NoClock)
        ELSE Done(<<Reply("delay_disambiguate", <<>>)>>, NoClock)

\* ActionShowDelay.run
ActionShowDelay_run(t) ==
    LET delay_city   == ResolveCity(ScanEntities(t.entities, {"delay_city"},
                                                 t.slots.delay_city))
        train_number == ResolveTrain(ScanEntities(t.entities, {"train_number"},
                                                  t.slots.train_number))
        city_info  == Get(DELAYS_CITY, delay_city)
        train_info == Get(DELAYS_TRAIN, train_number)
    IN  IF t.intent \in {"ask_delay_city", "ask_delay"}
        THEN IF ~Truthy(delay_city)
             THEN Done(<<Reply("delay_city_prompt", <<>>)>>, NoClock)
             ELSE IF Truthy(city_info)
             THEN Done(<<Reply("delay_city", <<delay_city, city_info>>)>>, NoClock)
             ELSE Done(<<Reply("delay_city_none", <<delay_city>>)>>, NoClock)
        ELSE IF t.intent = "ask_delay_train"
        THEN IF ~Truthy(train_number)
             THEN Done(<<Reply("delay_train_prompt", <<>>)>>, NoClock)
             ELSE IF Truthy(train_info)
             THEN Done(<<Reply("delay_train", <<train_number, train_info>>)>>, NoClock)
             ELSE Done(<<Reply("delay_train_none", <<train_number>>)>>, NoClock)
        ELSE DelayFallback(delay_city, train_number)

\* ActionCheckSchedule.run
ActionCheckSchedule_run(t) ==
    LET from_city == Or(FirstEntityValue(t.entities, "from_city"), t.slots.departure_city)
        to_city   == Or(FirstEntityValue(t.entities, "to_city"), t.slots.arrival_city)
    IN  IF ~Truthy(from_city) \/ ~Truthy(to_city)
        THEN Done(<<Reply("check_prompt", <<>>)>>, NoClock)
        ELSE Done(<<Reply("check_checking", <<from_city, to_city>>),
                    Reply("check_result", <<from_city, to_city>>)>>, NoClock)

\* Faulty variant: the reversed pair is not looked up.
PriceLookup_forward_only(departure, arrival) == Get(TICKET_PRICES, <<departure, arrival>>)

\* TICKET_PRICES.get((departure, arrival)) or TICKET_PRICES.get((arrival, departure))
PriceLookup(departure, arrival) ==
    Or(Get(TICKET_PRICES, <<departure, arrival>>), Get(TICKET_PRICES, <<arrival, departure>>))

\* ActionShowTicketPrice.run
ActionShowTicketPrice_run(t) ==
    LET departure == ResolveCity(ScanEntities(t.entities, {"departure_city"},
                                              t.slots.departure_city))
        arrival   == ResolveCity(ScanEntities(t.entities, {"arrival_city"},
                                              t.slots.arrival_city))
        price == PriceLookup(departure, arrival)
    IN  IF ~Truthy(departure) \/ ~Truthy(arrival)
        THEN Done(<<Reply("price_prompt", <<>>)>>, NoClock)
        ELSE IF Truthy(price)
        THEN Done(<<Reply("price", <<departure, arrival, price>>)>>, NoClock)
        ELSE Done(<<Reply("price_none", <<departure, arrival>>)>>, NoClock)

\* ActionShowPlatform.run
ActionShowPlatform_run(t) ==
    LET train_number == ResolveTrain(ScanEntities(t.entities, {"train_number"},
                                                  t.slots.train_number))
        platform == Get(PLATFORMS, train_number)
    IN  IF ~Truthy(train_number)
        THEN Done(<<Reply("platform_prompt", <<>>)>>, NoClock)
        ELSE IF Truthy(platform)
        THEN Done(<<Reply("platform", <<train_number, platform>>)>>, NoClock)
        ELSE Done(<<Reply("platform_none", <<train_number>>)>>, NoClock)

\* ActionShowTrainType.run
ActionShowTrainType_run(t) ==
    LET departure == ResolveCity(ScanEntities(t.entities, {"departure_city"},
                                              t.slots.departure_city))
        arrival   == ResolveCity(ScanEntities(t.entities, {"arrival_city"},
                                              t.slots.arrival_city))
        train_type == Get(TRAIN_TYPES, <<departure, arrival>>)
    IN  IF ~Truthy(departure) \/ ~Truthy(arrival)
        THEN Done(<<Reply("type_prompt", <<>>)>>, NoClock)
        ELSE IF Truthy(train_type)
        THEN Done(<<Reply("type", <<departure, arrival, train_type>>)>>, NoClock)
        ELSE Done(<<Reply("type_none", <<departure, arrival>>)>>, NoClock)

\* ActionShowServices.run: TRAIN_SERVICES.get(train_number, []) gives a list
ActionShowServices_run(t) ==
    LET train_number == ResolveTrain(ScanEntities(t.entities, {"train_number"},
                                                  t.slots.train_number))
        services == IF HasKey(TRAIN_SERVICES, train_number)
                    THEN Lookup(TRAIN_SERVICES, train_number) ELSE <<>>
    IN  IF ~Truthy(train_number)
        THEN Done(<<Reply("services_prompt", <<>>)>>, NoClock)
        ELSE IF services # <<>>
        THEN Done(<<Reply("services", <<train_number, Join(<<44, 32>>, services)>>)>>, NoClock)
        ELSE Done(<<Reply("services_none", <<train_number>>)>>, NoClock)

-----------------------------------------------------------------------------
(* Handler runs: Init draws the snapshot the dialogue manager hands over, each *)
(* action is one call of a handler's run on a fresh CollectingDispatcher.      *)

Init ==
    /\ fn = "none"
    /\ raw = None
    /\ out = NotReturned
    /\ clock = NoClock
    /\ tracker \in Trackers
    /\ handler = "none"
    /\ messages = <<>>
    /\ events = NotReturned

\* one call of run: the dispatcher collects the messages, run returns the events
Ran(name, done) ==
    /\ handler = "none"
    /\ handler' = name
    /\ messages' = done.messages
    /\ events' = done.events
    /\ clock' = done.clock
    /\ UNCHANGED <<fn, raw, out, tracker>>

RunShowSchedule ==
    \E now \in HandlerClockInputs : Ran("action_show_schedule", ActionShowSchedule_run(tracker, now))

RunShowDelay == Ran("action_show_delay", ActionShowDelay_run(tracker))

RunCheckSchedule == Ran("action_check_schedule", ActionCheckSchedule_run(tracker))

RunShowTicketPrice == Ran("action_show_ticket_price", ActionShowTicketPrice_run(tracker))

RunShowPlatform == Ran("action_show_platform", ActionShowPlatform_run(tracker))

RunShowTrainType == Ran("action_show_train_type", ActionShowTrainType_run(tracker))

RunShowServices == Ran("action_show_services", ActionShowServices_run(tracker))

Next ==
    \/ RunShowSchedule
    \/ RunShowDelay
    \/ RunCheckSchedule
    \/ RunShowTicketPrice
    \/ RunShowPlatform
    \/ RunShowTrainType
    \/ RunShowServices

Spec == Init /\ [][Next]_vars

-----------------------------------------------------------------------------
(* Properties of the normalisation functions *)

\* x is a string: a sequence of code points
IsString(x) == \A i \in 1..Len(x) : x[i] >= 0

\* r is k up to letter case
EqualUpToCase(r, k) ==
    /\ Len(r) = Len(k)
    /\ \A i \in 1..Len(k) : r[i] \in {LowerChar(k[i]), UpperChar(k[i])}

\* C2, as stated: normalize_city returns a string for every input, the absent and
\* the empty one included.
C2_AlwaysString ==
    fn = "normalize_city" => out # None /\ IsString(out)

\* C2, amended: normalize_city returns None exactly for the absent and the empty
\* input; for every other input it returns a string, which is the empty string for
\* whitespace-only input.
C2_StringUnlessEmpty ==
    fn = "normalize_city" =>
        /\ (out = None) <=> (raw = None \/ raw = <<>>)
        /\ out # None => IsString(out)
        /\ (Truthy(raw) /\ \A i \in 1..Len(raw) : IsSpace(raw[i])) => out = <<>>

\* a non-empty input whose result is a string that is no known city
C2_Witness ==
    /\ fn = "normalize_city"
    /\ Truthy(raw)
    /\ out # None
    /\ out # <<>>
    /\ \A i \in 1..Len(KNOWN_CITIES) : KNOWN_CITIES[i] # out

\* C3: for every alias key k and every input that is k up to letter case,
\* normalize_city returns the canonical city the alias table gives for k.
C3_AliasAnyCase ==
    fn = "normalize_city" =>
        \A i \in 1..Len(CITY_ALIASES) :
            EqualUpToCase(raw, CITY_ALIASES[i].key) => out = CITY_ALIASES[i].val

\* an input that is a key in another letter case, resolved to the key's city
C3_Witness ==
    /\ fn = "normalize_city"
    /\ ~HasKey(CITY_ALIASES, raw)
    /\ \E i \in 1..Len(CITY_ALIASES) :
          EqualUpToCase(raw, CITY_ALIASES[i].key) /\ out = CITY_ALIASES[i].val

\* s has the shape of C4: 1-4 letters, the pattern's separator (whitespace with at
\* most one hyphen), 1-5 digits, and nothing else
TrainShapes(s) ==
    {m \in (1..4) \X (1..5) :
        /\ m[1] + m[2] <= Len(s)
        /\ \A i \in 1..m[1] : IsPatternLetter(s[i])
        /\ \A i \in (Len(s) - m[2] + 1)..Len(s) : IsDigit(s[i])
        /\ MatchesSeparator(SubSeq(s, m[1] + 1, Len(s) - m[2]))}

\* C4: normalize_train_number upper-cases and trims; a result of the shape is
\* returned as letters, one space, digits; every other input comes back upper-cased
\* and trimmed with no character dropped.
C4_ShapeOrUnchanged ==
    (fn = "normalize_train_number" /\ Truthy(raw)) =>
        LET s == Upper(Strip(raw))
            shapes == TrainShapes(s)
        IN  IF shapes = {} THEN out = s
            ELSE \E m \in shapes :
                    out = SubSeq(s, 1, m[1]) \o <<32>> \o SubSeq(s, Len(s) - m[2] + 1, Len(s))

\* t is a zero-padded time of day, "00:00" to "23:59"
IsTimeOfDay(t) ==
    /\ Len(t) = 5
    /\ t[3] = 58
    /\ \A i \in {1, 2, 4, 5} : IsDigit(t[i])
    /\ (t[1] - 48) * 10 + (t[2] - 48) <= 23
    /\ (t[4] - 48) * 10 + (t[5] - 48) <= 59

\* the minute of the day of a zero-padded time
MinuteOfDay(t) == ((t[1] - 48) * 10 + (t[2] - 48)) * 60 + (t[4] - 48) * 10 + (t[5] - 48)

\* C5: for a non-empty list of zero-padded times of day, in any order,
\* find_next_train returns the earliest listed time at or after the current minute,
\* or the earliest listed time when none is; the result is one of the listed
\* strings; for an empty or absent list it returns None.
C5_NextOrEarliest ==
    fn = "find_next_train" =>
        /\ (raw = NoList \/ raw = <<>>) => out = None
        /\ (TruthyList(raw) /\ \A i \in 1..Len(raw) : IsTimeOfDay(raw[i])) =>
              LET listed == {raw[i] : i \in 1..Len(raw)}
                  later == {t \in listed : MinuteOfDay(t) >= clock}
                  among == IF later # {} THEN later ELSE listed
              IN  /\ out \in among
                  /\ \A t \in among : MinuteOfDay(out) <= MinuteOfDay(t)

\* a list that is not in ascending order, all of whose times have passed: the
\* earliest one is returned
C5_Witness ==
    /\ fn = "find_next_train"
    /\ TruthyList(raw)
    /\ Len(raw) >= 2
    /\ \A i \in 1..Len(raw) : IsTimeOfDay(raw[i]) /\ MinuteOfDay(raw[i]) < clock
    /\ MinuteOfDay(raw[1]) > MinuteOfDay(raw[2])
    /\ out = raw[2]

-----------------------------------------------------------------------------
(* Properties of the handlers *)

\* the fields a handler resolves as the code reads them: slot first, then the
\* entities of the given names
FieldValue(names, slot) == ScanEntities(tracker.entities, names, tracker.slots[slot])

ScheduleDeparture == ResolveCity(FieldValue({"departure_city", "from_city"}, "departure_city"))
ScheduleArrival   == ResolveCity(FieldValue({"arrival_city", "to_city"}, "arrival_city"))
PriceDeparture    == ResolveCity(FieldValue({"departure_city"}, "departure_city"))
PriceArrival      == ResolveCity(FieldValue({"arrival_city"}, "arrival_city"))
DelayCity         == ResolveCity(FieldValue({"delay_city"}, "delay_city"))
DelayTrain        == ResolveTrain(FieldValue({"train_number"}, "train_number"))

\* the diagnostic handler has a city when the first entity of that name, or else
\* the slot, carries a value
CheckHasBothCities ==
    /\ Truthy(Or(FirstEntityValue(tracker.entities, "from_city"), tracker.slots.departure_city))
    /\ Truthy(Or(FirstEntityValue(tracker.entities, "to_city"), tracker.slots.arrival_city))

\* C1, as stated: every run returns the empty list having emitted exactly one
\* reply, and exactly two in the diagnostic schedule-check handler.
C1_OneReplyTwoForCheck ==
    handler # "none" =>
        /\ events = <<>>
        /\ Len(messages) = IF handler = "action_check_schedule" THEN 2 ELSE 1

\* C1, amended: every run returns the empty list having emitted exactly one reply;
\* the diagnostic schedule-check handler emits two when it has both cities and one,
\* the prompt for them, when a city is missing.
C1_OneReplyTwoForCheckWithCities ==
    handler # "none" =>
        /\ events = <<>>
        /\ Len(messages) =
              IF handler = "action_check_schedule" /\ CheckHasBothCities THEN 2 ELSE 1
        /\ (handler = "action_check_schedule" /\ ~CheckHasBothCities)
              => messages = <<Reply("check_prompt", <<>>)>>

\* the diagnostic handler with both cities: the "checking" reply and the result
C1_Witness ==
    /\ handler = "action_check_schedule"
    /\ CheckHasBothCities
    /\ events = <<>>
    /\ Len(messages) = 2
    /\ messages[1].template = "check_checking"
    /\ messages[2].template = "check_result"

\* the pair is no key of SCHEDULES and its reverse is
OnlyReverseStored(departure, arrival) ==
    /\ Truthy(departure)
    /\ Truthy(arrival)
    /\ ~HasKey(SCHEDULES, <<departure, arrival>>)
    /\ HasKey(SCHEDULES, <<arrival, departure>>)

\* C6, amended: when the schedule handler resolves a pair that is no key of the
\* schedule table while the reversed pair is, its only reply is the
\* direction-confirmation prompt naming the reversed route.
C6_ReverseOnlyPrompt ==
    (handler = "action_show_schedule" /\ OnlyReverseStored(ScheduleDeparture, ScheduleArrival))
        => messages = <<Reply("schedule_reverse", <<ScheduleArrival, ScheduleDeparture>>)>>

\* C6, as stated: the same, with departure "Kraków", arrival "Łódź" as a pair of
\* that kind.
C6_ReverseOnlyPromptKrakowLodz ==
    /\ C6_ReverseOnlyPrompt
    /\ (handler = "action_show_schedule" /\ ScheduleDeparture = Krakow /\ ScheduleArrival = Lodz)
          => messages = <<Reply("schedule_reverse", <<Lodz, Krakow>>)>>

\* Kraków to Warszawa: only Warszawa to Kraków is stored, and the prompt is the reply
C6_Witness ==
    /\ handler = "action_show_schedule"
    /\ ScheduleDeparture = Krakow
    /\ ScheduleArrival = Warszawa
    /\ OnlyReverseStored(ScheduleDeparture, ScheduleArrival)
    /\ messages = <<Reply("schedule_reverse", <<Warszawa, Krakow>>)>>

\* the reply of the schedule handler for a stored route, for the intents that get
\* the full list alone
ScheduleReplyIs(fullListIntents) ==
    LET departure == ScheduleDeparture
        arrival == ScheduleArrival
        times == Join(<<44, 32>>, Lookup(SCHEDULES, <<departure, arrival>>))
        next == find_next_train(Lookup(SCHEDULES, <<departure, arrival>>), clock)
    IN  (handler = "action_show_schedule" /\ HasKey(SCHEDULES, <<departure, arrival>>)) =>
            IF tracker.intent \in fullListIntents
            THEN /\ messages = <<Reply("schedule_all", <<departure, arrival, times>>)>>
                 /\ clock = NoClock
            ELSE IF tracker.intent \in {"ask_schedule", "ask_schedule_next"}
            THEN /\ messages = <<Reply("schedule_next", <<departure, arrival, next>>)>>
                 /\ clock # NoClock
            ELSE /\ messages = <<Reply("schedule_all_and_next",
                                       <<departure, arrival, times, next>>)>>
                 /\ clock # NoClock

\* C7, as stated: for a stored route the single reply is the full list of that
\* route's times joined by ", ", whatever the time, with ask_schedule_all; the next
\* departure alone with ask_schedule or ask_schedule_next; the full list and the
\* next departure with any other intent.
C7_ReplyByIntent == ScheduleReplyIs({"ask_schedule_all"})

\* C7, amended: the full list alone is the reply with ask_schedule_all and with
\* ask_schedule_connection; the full list and the next departure with any intent
\* other than these two, ask_schedule and ask_schedule_next.
C7_ReplyByIntentWithConnection == ScheduleReplyIs({"ask_schedule_all", "ask_schedule_connection"})

\* Łódź to Kraków with ask_schedule_all: the four times, and the clock is not read
C7_Witness ==
    /\ handler = "action_show_schedule"
    /\ tracker.intent = "ask_schedule_all"
    /\ clock = NoClock
    /\ messages = <<Reply("schedule_all",
                          <<Lodz, Krakow,
                            HHMM(0,5,1,0) \o <<44, 32>> \o HHMM(0,9,0,0) \o <<44, 32>>
                            \o HHMM(1,3,4,5) \o <<44, 32>> \o HHMM(1,8,2,0)>>)>>

\* the tracker with departure and arrival exchanged, in the slots and the entities
Reversed(t) ==
    [t EXCEPT !.slots = [@ EXCEPT !.departure_city = t.slots.arrival_city,
                                  !.arrival_city = t.slots.departure_city],
              !.entities = [i \in 1..Len(t.entities) |->
                               [t.entities[i] EXCEPT !.entity =
                                   IF @ = "departure_city" THEN "arrival_city"
                                   ELSE IF @ = "arrival_city" THEN "departure_city"
                                   ELSE @]]]

\* C8: for a resolved pair the price handler replies with the price stored under
\* (departure, arrival), else with the one stored under (arrival, departure), else
\* with "no data"; the price it reports for the reversed request is the same.
C8_PriceEitherDirection ==
    LET departure == PriceDeparture
        arrival == PriceArrival
        reversed == ActionShowTicketPrice_run(Reversed(tracker)).messages
    IN  (handler = "action_show_ticket_price" /\ Truthy(departure) /\ Truthy(arrival)) =>
            /\ IF HasKey(TICKET_PRICES, <<departure, arrival>>)
               THEN messages = <<Reply("price", <<departure, arrival,
                                                  Lookup(TICKET_PRICES, <<departure, arrival>>)>>)>>
               ELSE IF HasKey(TICKET_PRICES, <<arrival, departure>>)
               THEN messages = <<Reply("price", <<departure, arrival,
                                                  Lookup(TICKET_PRICES, <<arrival, departure>>)>>)>>
               ELSE messages = <<Reply("price_none", <<departure, arrival>>)>>
            /\ Len(reversed) = 1
            /\ reversed[1].template = messages[1].template
            /\ messages[1].template = "price" => reversed[1].args[3] = messages[1].args[3]

\* Kraków to Łódź: only Łódź to Kraków has a price, and that price is the reply
C8_Witness ==
    /\ handler = "action_show_ticket_price"
    /\ PriceDeparture = Krakow
    /\ PriceArrival = Lodz
    /\ ~HasKey(TICKET_PRICES, <<Krakow, Lodz>>)
    /\ messages = <<Reply("price", <<Krakow, Lodz, Lookup(TICKET_PRICES, <<Lodz, Krakow>>)>>)>>

\* the fields of each handler: the slot and the entity names that feed it
Fields(h) ==
    LET departure == [slot |-> "departure_city", names |-> {"departure_city"}]
        arrival   == [slot |-> "arrival_city", names |-> {"arrival_city"}]
        train     == [slot |-> "train_number", names |-> {"train_number"}]
    IN  CASE h = "action_show_schedule" ->
                {[slot |-> "departure_city", names |-> {"departure_city", "from_city"}],
                 [slot |-> "arrival_city", names |-> {"arrival_city", "to_city"}]}
          [] h = "action_show_delay" ->
                {[slot |-> "delay_city", names |-> {"delay_city"}], train}
          [] h = "action_check_schedule" ->
                {[slot |-> "departure_city", names |-> {"from_city"}],
                 [slot |-> "arrival_city", names |-> {"to_city"}]}
          [] h = "action_show_ticket_price" -> {departure, arrival}
          [] h = "action_show_train_type" -> {departure, arrival}
          [] h = "action_show_platform" -> {train}
          [] h = "action_show_services" -> {train}

\* the replies of handler h on tracker t (the schedule handler at the minute read)
RepliesOf(h, t) ==
    CASE h = "action_show_schedule" ->
            ActionShowSchedule_run(t, IF clock = NoClock THEN 0 ELSE clock).messages
      [] h = "action_show_delay" -> ActionShowDelay_run(t).messages
      [] h = "action_check_schedule" -> ActionCheckSchedule_run(t).messages
      [] h = "action_show_ticket_price" -> ActionShowTicketPrice_run(t).messages
      [] h = "action_show_train_type" -> ActionShowTrainType_run(t).messages
      [] h = "action_show_platform" -> ActionShowPlatform_run(t).messages
      [] h = "action_show_services" -> ActionShowServices_run(t).messages

\* the tracker without the entities of the given names
WithoutEntities(t, names) ==
    LET Other(e) == e.entity \notin names
    IN  [t EXCEPT !.entities = SelectSeq(t.entities, Other)]

\* in handler h a non-empty slot decides its field: the replies are those of the
\* same message without the entities that feed the field
SlotBeforeEntity(h) ==
    \A f \in Fields(h) :
        Truthy(tracker.slots[f.slot]) =>
            messages = RepliesOf(h, WithoutEntities(tracker, f.names))

\* in handler h an entity with a value decides its field: the replies are those of
\* the same message with the field's slot empty
EntityBeforeSlot(h) ==
    \A f \in Fields(h) :
        (\E n \in f.names : Truthy(FirstEntityValue(tracker.entities, n))) =>
            messages = RepliesOf(h, [tracker EXCEPT !.slots[f.slot] = None])

\* C9, as stated: in every handler a non-empty slot is the value used, an entity's
\* value only when the slot is empty.
C9_SlotBeforeEntity ==
    handler # "none" => SlotBeforeEntity(handler)

\* C9, amended: so it is in the six lookup handlers; in the diagnostic
\* schedule-check handler the value of the message's from_city / to_city entity is
\* the value used, the slot only when there is no such value.
C9_SlotBeforeEntityButCheck ==
    /\ handler \notin {"none", "action_check_schedule"} => SlotBeforeEntity(handler)
    /\ handler = "action_check_schedule" => EntityBeforeSlot(handler)

\* the price handler answers from the departure slot though an entity names
\* another departure city
C9_Witness ==
    /\ handler = "action_show_ticket_price"
    /\ Truthy(tracker.slots.departure_city)
    /\ \E i \in 1..Len(tracker.entities) :
          /\ tracker.entities[i].entity = "departure_city"
          /\ ResolveCity(tracker.entities[i].value) # ResolveCity(tracker.slots.departure_city)
    /\ Len(messages) = 1
    /\ messages[1].template \in {"price", "price_none"}
    /\ messages[1].args[1] = ResolveCity(tracker.slots.departure_city)

\* C10: in the delay handler, with an intent other than ask_delay_city, ask_delay
\* and ask_delay_train the reply is the city's delay information when the city has
\* an entry, whatever the train number; else the train's when the train has one;
\* else the request to say which.  With ask_delay_city or ask_delay only the city
\* decides, with ask_delay_train only the train number; a missing value gives the
\* prompt for it.
C10_DelayDispatch ==
    LET city == DelayCity
        train == DelayTrain
    IN  handler = "action_show_delay" =>
            IF tracker.intent \in {"ask_delay_city", "ask_delay"}
            THEN messages =
                    IF ~Truthy(city) THEN <<Reply("delay_city_prompt", <<>>)>>
                    ELSE IF HasKey(DELAYS_CITY, city)
                    THEN <<Reply("delay_city", <<city, Lookup(DELAYS_CITY, city)>>)>>
                    ELSE <<Reply("delay_city_none", <<city>>)>>
            ELSE IF tracker.intent = "ask_delay_train"
            THEN messages =
                    IF ~Truthy(train) THEN <<Reply("delay_train_prompt", <<>>)>>
                    ELSE IF HasKey(DELAYS_TRAIN, train)
                    THEN <<Reply("delay_train", <<train, Lookup(DELAYS_TRAIN, train)>>)>>
                    ELSE <<Reply("delay_train_none", <<train>>)>>
            ELSE messages =
                    IF HasKey(DELAYS_CITY, city)
                    THEN <<Reply("delay_city_now", <<city, Lookup(DELAYS_CITY, city)>>)>>
                    ELSE IF HasKey(DELAYS_TRAIN, train)
                    THEN <<Reply("delay_train", <<train, Lookup(DELAYS_TRAIN, train)>>)>>
                    ELSE <<Reply("delay_disambiguate", <<>>)>>

\* a city without an entry and a train with one, under an intent that names
\* neither lookup: the train's information is the reply
C10_Witness ==
    /\ handler = "action_show_delay"
    /\ tracker.intent \notin {"ask_delay_city", "ask_delay", "ask_delay_train"}
    /\ Truthy(DelayCity)
    /\ ~HasKey(DELAYS_CITY, DelayCity)
    /\ HasKey(DELAYS_TRAIN, DelayTrain)
    /\ messages = <<Reply("delay_train", <<DelayTrain, Lookup(DELAYS_TRAIN, DelayTrain)>>)>>

====
